---- MODULE Spec2Model ----
(***************************************************************************)
(* Wallet ledger and transaction-settlement engine of the VTU API server.  *)
(*                                                                         *)
(* The state is the two MongoDB collections the engine writes (wallets,    *)
(* transactions), the position of every request handler that is between    *)
(* two awaits, and the position of the fire-and-forget settlement run      *)
(* (TransactionService.processWithProvider) of every reserved transaction. *)
(*                                                                         *)
(* MongoDB multi-document transactions (session.startTransaction ..        *)
(* commitTransaction) give snapshot isolation with first-writer-wins: a    *)
(* transaction whose snapshot was taken before another committed write to  *)
(* a document it writes itself fails with WriteConflict and is aborted;    *)
(* the code never retries.  A session transaction is therefore two steps:  *)
(* Begin (the snapshot: the outcome of the guards is fixed there) and      *)
(* Commit (all writes at once, or abort).  Statements outside a session    *)
(* (findByIdAndUpdate, findOneAndUpdate, document.save()) are single       *)
(* atomic document writes.                                                 *)
(*                                                                         *)
(* A call whose guard throws has read one snapshot and written nothing;    *)
(* its return is scheduled before any other step (Quiet), which removes    *)
(* interleavings that differ only in when a rejected call returns.         *)
(*                                                                         *)
(* The operations are checked in groups, one specification each: Spec      *)
(* (purchases, settlement, refunds, direct debits, locks), WalletSpec (the *)
(* wallet store with both users), SettleSpec (settlement with any set of   *)
(* providers in service), FundSpec (gateway-funded payments), WithdrawSpec *)
(* (bank withdrawals and the gateway's transfer events), RetrySpec (one    *)
(* purchase, its settlement and its retries), RefundRaceSpec (a purchase,  *)
(* an administrator's refund and one retry), ProviderSpec (one purchase    *)
(* with the providers in any status), FeedbackSpec (one purchase with      *)
(* outcome recording that may fail), DebitSpec and TransferSpec (direct    *)
(* debits and peer transfers at the edge of the balance), SwapSpec (one    *)
(* airtime swap), CreateSpec (rows created under generated references)     *)
(* and FeeSpec (transfers and withdrawals with amounts that hold           *)
(* fractions of the currency unit).                                        *)
(***************************************************************************)
EXTENDS Integers, Sequences, FiniteSets, TLC

\* ---------------------------------------------------------------- bounds
MaxRows == 4            \* ledger rows in one behaviour, refund rows reserved
MaxBalance == 2000      \* cap for the gateway credits, which write no ledger row

\* ------------------------------------------------------- inputs (small sets)
Users == {"u1", "u2"}
Payers == {"u1"}        \* the users who issue requests; u2 only receives
Procs == {"h1", "h2"}   \* request handlers in flight at the same time
Providers == {"mtn", "glo"}
NoUser == "none"
InitBalance == [u \in Users |-> IF u = "u1" THEN 1000 ELSE 0]
CreditAmounts == {500}
DebitAmounts == {500}
DebitEdgeAmounts == {1, 1000, 1001}   \* the whole balance, one more, one unit
TransferAmounts == {100}
TransferEdgeAmounts == {100, 600, 1000}   \* fee 10 (floor), fee 12 (2%), more than the sender can pay
Recipients == Users \cup {"u3"}           \* u3 has no wallet
SettleAmounts == {600}
FundAmounts == {500}
WithdrawAmounts == {400}

\* ------------------------------------------------ schema of a ledger row
StatusEnum == {"pending", "processing", "successful", "failed", "cancelled", "refunded"}

SettlementTypes == {"data_recharge", "airtime_swap"}
\* transactionSchema.maxRetries: { default: 3 }
maxRetries == 3

VARIABLES
  balance,      \* Wallet.balance, per user
  locked,       \* Wallet.locked, per user
  ledger,       \* the transactions collection: row i has _id i
  provider,     \* the providerstatuses collection, per provider name
  pc,           \* per request handler: what it runs and where it is
  orch,         \* per transaction: its processWithProvider run
  audit,        \* ghost, per transaction: money moved, providers called, lock in flight
  sumCredit,    \* ghost: per user, sum of all committed credits
  sumDebit      \* ghost: per user, sum of all committed debits

vars == <<balance, locked, ledger, provider, pc, orch, audit, sumCredit, sumDebit>>

Ids == 1..Len(ledger)
Slots == 1..(MaxRows + 1)

Idle == [op |-> "idle", step |-> "", u |-> NoUser, u2 |-> NoUser, t |-> 0,
         amt |-> 0, pre |-> "", conflict |-> FALSE, snap |-> 0, snap2 |-> 0, mem |-> "",
         queue |-> <<>>]

NoRun == [step |-> "none", pre |-> "", conflict |-> FALSE, snap |-> 0,
          mem |-> <<>>, queue |-> <<>>, success |-> FALSE, out |-> ""]

NoAudit == [debits |-> 0, credits |-> 0, contacted |-> <<>>, retried |-> 0,
            lockedInFlight |-> FALSE, recordFailed |-> FALSE, attempts |-> 0,
            fulfilled |-> FALSE]

RefsUsed == {ledger[i].reference : i \in Ids}

SetMax(S) == CHOOSE x \in S : \A y \in S : y <= x

Max2(a, b) == IF a >= b THEN a ELSE b

\* A reference nobody holds yet (the k-th one).
FreshRef(k) == SetMax(RefsUsed \cup {0}) + k

\* What a caller may pass, or generateReference may return: a reference that
\* is not in the collection, or one that already is.
RefChoice == {FreshRef(1)} \cup (IF RefsUsed = {} THEN {} ELSE {SetMax(RefsUsed)})

\* Variant: no pre-save hook.
NoSaveHook(h, s) == h

\* transactionSchema.pre('save'): a save that modifies status appends one
\* more statusHistory entry carrying the new status.
PreSaveHook(h, s) == Append(h, s)

NewRow(ref, u, type, amount, fee, total, prev, new, status, via, link) ==
  [reference |-> ref, user |-> u, type |-> type, amount |-> amount, fee |-> fee,
   totalAmount |-> total, previousBalance |-> prev, newBalance |-> new,
   status |-> status, statusHistory |-> PreSaveHook(<<>>, status),
   service |-> IF via \in Providers THEN via ELSE "",
   retryCount |-> 0, providerName |-> "", triedProviders |-> {},
   refundFor |-> IF via = "refund" THEN link ELSE 0,
   linkedReference |-> IF via = "transfer" THEN link ELSE 0,
   via |-> IF via \in Providers THEN "purchase" ELSE via]

\* Rows that may still get a refund row: their slot is kept free.
Refundable == {i \in Ids : ledger[i].via \in {"purchase", "fundWallet"}
                           /\ \A j \in Ids : ledger[j].refundFor # ledger[i].reference}

Room(n) == Len(ledger) + Cardinality(Refundable) + n <= MaxRows

\* walletSchema.balance: { min: 0 }, validated by every wallet.save()
BalanceValid(b) == b >= 0

\* An open session transaction of record r reads (and later writes) one of
\* the wallets W or one of the transactions T.
Reads(r, W, T) == r.step = "txn" /\ ((({r.u, r.u2} \cap W) # {}) \/ r.t \in T)

OrchReads(t, W, T) ==
  /\ orch[t].step \in {"refund1", "refund2"}
  /\ (t \in T \/ ledger[t].user \in W)

\* A session transaction that can only abort: nothing it read is used again.
Doomed(r) == [r EXCEPT !.snap = 0, !.snap2 = 0]

Open(r) == IF r.pre = "ok" THEN r ELSE Doomed(r)

\* A committed write to the wallets W and the transactions T makes every
\* other open session transaction that touches them fail at its own write.
\* Variant: no write conflict is ever detected.
NoFlag(f, W, T) == f

Flag(f, W, T) ==
  [q \in DOMAIN f |-> IF Reads(f[q], W, T) THEN Doomed([f[q] EXCEPT !.conflict = TRUE]) ELSE f[q]]

OrchFlag(W, T) ==
  [t \in Slots |-> IF t \in Ids /\ OrchReads(t, W, T)
                     THEN [orch[t] EXCEPT !.conflict = TRUE, !.snap = 0] ELSE orch[t]]

Finish(p, W, T) == [Flag(pc, W, T) EXCEPT ![p] = Idle]

\* A call whose guard threw, or whose session is bound to abort, has read one
\* snapshot and writes nothing: its return is taken before any other step.
Rejected(r) == r.step = "txn" /\ (r.pre # "ok" \/ r.conflict)

Quiet == (\A p \in Procs : ~Rejected(pc[p])) /\ (\A t \in Ids : ~orch[t].conflict)

\* A request is served by the first free handler.
Accepts(p) == Quiet /\ pc[p].op = "idle" /\ (p = "h1" \/ pc["h1"].op # "idle")

Turn(p) == Quiet \/ Rejected(pc[p])

\* The collections after seeding; the providerstatuses rows are given.
Seeded(statuses) ==
  /\ balance = InitBalance
  /\ locked = [u \in Users |-> FALSE]
  /\ ledger = <<>>
  /\ provider = statuses
  /\ pc = [p \in Procs |-> Idle]
  /\ orch = [t \in Slots |-> NoRun]
  /\ audit = [t \in Slots |-> NoAudit]
  /\ sumCredit = [u \in Users |-> 0]
  /\ sumDebit = [u \in Users |-> 0]

\* A providerstatuses row: its status, whether now lies inside its
\* [maintenanceStart, maintenanceEnd] window, and its request counters with
\* the schema defaults.
ProviderRow(status, window) ==
  [status |-> status, inWindow |-> window, successfulRequests |-> 0, failedRequests |-> 0,
   totalRequests |-> 0, successRate |-> 100]

Init == Seeded([n \in Providers |-> ProviderRow("active", FALSE)])

\* Any provider may have been taken out of service before the run.
SettleInit ==
  \E statuses \in [Providers -> {"active", "inactive"}] :
    Seeded([n \in Providers |-> ProviderRow(statuses[n], FALSE)])

\* providerStatusSchema.status
ProviderStatusEnum == {"active", "inactive", "maintenance", "degraded"}

\* Any status for each provider, inside or outside its maintenance window
ProviderInit ==
  \E statuses \in [Providers -> ProviderStatusEnum], windows \in [Providers -> BOOLEAN] :
    Seeded([n \in Providers |-> ProviderRow(statuses[n], windows[n])])

\* ------------------------------------------------------------ Wallet Store

CreditPre(u) == IF locked[u] THEN "WalletLocked" ELSE "ok"

\* Variant: a debit of the whole balance is refused.
DebitPreStrict(u, amount) ==
  IF locked[u] THEN "WalletLocked"
  ELSE IF balance[u] <= amount THEN "InsufficientBalance"
  ELSE "ok"

DebitPre(u, amount) ==
  IF locked[u] THEN "WalletLocked"
  ELSE IF balance[u] < amount THEN "InsufficientBalance"
  ELSE "ok"

\* The outcome of a session transaction: the guards were evaluated on its
\* snapshot (r.pre), its writes fail if a document it writes was written
\* since (r.conflict), its inserts fail on the unique index on reference,
\* and wallet.save() validates the new balances.
TxnOutcome(r, refs, n, balances) ==
  IF r.pre # "ok" THEN r.pre
  ELSE IF r.conflict THEN "WriteConflict"
  ELSE IF \E b \in balances : ~BalanceValid(b) THEN "ValidationError"
  ELSE IF (refs \cap RefsUsed) # {} \/ Cardinality(refs) < n THEN "DuplicateKey"
  ELSE "ok"

BeginCredit(p, u, amount) ==
  /\ Accepts(p)
  /\ pc' = [pc EXCEPT ![p] = Open([Idle EXCEPT !.op = "creditWallet", !.step = "txn", !.u = u,
                                !.amt = amount, !.pre = CreditPre(u), !.snap = balance[u]])]
  /\ UNCHANGED <<balance, locked, ledger, provider, orch, audit, sumCredit, sumDebit>>

\* The writes of WalletService.creditWallet for handler record r: the
\* balance computed from the snapshot, and the paired ledger row.
CreditWrites(r, ref) ==
  /\ balance' = [balance EXCEPT ![r.u] = r.snap + r.amt]
  /\ ledger' = Append(ledger, NewRow(ref, r.u, "fund_wallet", r.amt, 0, r.amt,
                                     r.snap, r.snap + r.amt, "successful", "creditWallet", 0))
  /\ sumCredit' = [sumCredit EXCEPT ![r.u] = @ + r.amt]
  /\ orch' = OrchFlag({r.u}, {})
  /\ UNCHANGED <<locked, provider, sumDebit>>

CommitCredit(p) ==
  /\ pc[p].op = "creditWallet" /\ pc[p].step = "txn" /\ Turn(p)
  /\ \E ref \in RefChoice :
       LET r == pc[p]
           out == TxnOutcome(r, {ref}, 1, {r.snap + r.amt}) IN
       IF out = "ok"
         THEN /\ Room(1)
              /\ CreditWrites(r, ref)
              /\ pc' = Finish(p, {r.u}, {})
              /\ UNCHANGED audit
         ELSE /\ pc' = Finish(p, {}, {})
              /\ UNCHANGED <<balance, locked, ledger, provider, orch, audit, sumCredit, sumDebit>>

BeginDebit(p, u, amount) ==
  /\ Accepts(p)
  /\ pc' = [pc EXCEPT ![p] = Open([Idle EXCEPT !.op = "debitWallet", !.step = "txn", !.u = u,
                                !.amt = amount, !.pre = DebitPre(u, amount), !.snap = balance[u]])]
  /\ UNCHANGED <<balance, locked, ledger, provider, orch, audit, sumCredit, sumDebit>>

\* Variant: the debit is applied with $inc to the current balance, on the
\* strength of the guard evaluated at the earlier read, and nothing validates.
CommitDebitInc(p) ==
  /\ pc[p].op = "debitWallet" /\ pc[p].step = "txn" /\ Turn(p)
  /\ \E ref \in RefChoice :
       LET r == pc[p] IN
       IF r.pre = "ok" /\ ref \notin RefsUsed
         THEN /\ Room(1)
              /\ balance' = [balance EXCEPT ![r.u] = @ - r.amt]
              /\ ledger' = Append(ledger, NewRow(ref, r.u, "wallet_transfer", r.amt, 0, r.amt,
                                                 balance[r.u], balance[r.u] - r.amt, "successful", "debitWallet", 0))
              /\ sumDebit' = [sumDebit EXCEPT ![r.u] = @ + r.amt]
              /\ pc' = Finish(p, {r.u}, {})
              /\ orch' = OrchFlag({r.u}, {})
              /\ UNCHANGED <<locked, provider, audit, sumCredit>>
         ELSE /\ pc' = Finish(p, {}, {})
              /\ UNCHANGED <<balance, locked, ledger, provider, orch, audit, sumCredit, sumDebit>>

CommitDebit(p) ==
  /\ pc[p].op = "debitWallet" /\ pc[p].step = "txn" /\ Turn(p)
  /\ \E ref \in RefChoice :
       LET r == pc[p]
           out == TxnOutcome(r, {ref}, 1, {r.snap - r.amt}) IN
       IF out = "ok"
         THEN /\ Room(1)
              /\ balance' = [balance EXCEPT ![r.u] = r.snap - r.amt]
              /\ ledger' = Append(ledger, NewRow(ref, r.u, "wallet_transfer", r.amt, 0, r.amt,
                                                 r.snap, r.snap - r.amt, "successful", "debitWallet", 0))
              /\ sumDebit' = [sumDebit EXCEPT ![r.u] = @ + r.amt]
              /\ pc' = Finish(p, {r.u}, {})
              /\ orch' = OrchFlag({r.u}, {})
              /\ UNCHANGED <<locked, provider, audit, sumCredit>>
         ELSE /\ pc' = Finish(p, {}, {})
              /\ UNCHANGED <<balance, locked, ledger, provider, orch, audit, sumCredit, sumDebit>>

\* fee = Math.max(10, amount * 0.02); exact for the amounts of TransferAmounts
\* Variant: a flat fee.
TransferFeeFlat(amount) == 10

TransferFee(amount) == Max2(10, (amount * 2) \div 100)

\* Variant: the recipient's lock is not looked at.
TransferPreSenderOnly(s, r, amount) ==
  IF s \notin Users \/ r \notin Users THEN "WalletNotFound"
  ELSE IF locked[s] THEN "SenderLocked"
  ELSE IF balance[s] < amount THEN "InsufficientBalance"
  ELSE IF balance[s] < amount + TransferFee(amount) THEN "InsufficientBalance"
  ELSE "ok"

TransferPre(s, r, amount) ==
  IF s \notin Users \/ r \notin Users THEN "WalletNotFound"
  ELSE IF locked[s] THEN "SenderLocked"
  ELSE IF locked[r] THEN "RecipientLocked"
  ELSE IF balance[s] < amount THEN "InsufficientBalance"
  ELSE IF balance[s] < amount + TransferFee(amount) THEN "InsufficientBalance"
  ELSE "ok"

\* walletController.transferToUser refuses a transfer to oneself before it
\* calls WalletService.transferFunds.
TransferToUserPre(s, r, amount) ==
  IF s = r THEN "InvalidRecipient" ELSE TransferPre(s, r, amount)

BeginTransfer(p, s, r, amount) ==
  /\ Accepts(p)
  /\ pc' = [pc EXCEPT ![p] = Open([Idle EXCEPT !.op = "transferFunds", !.step = "txn", !.u = s, !.u2 = r,
                                !.amt = amount, !.pre = TransferToUserPre(s, r, amount),
                                !.snap = balance[s],
                                !.snap2 = IF r \in Users THEN balance[r] ELSE 0])]
  /\ UNCHANGED <<balance, locked, ledger, provider, orch, audit, sumCredit, sumDebit>>

CommitTransfer(p) ==
  /\ pc[p].op = "transferFunds" /\ pc[p].step = "txn" /\ Turn(p)
  /\ \E collide \in BOOLEAN :
       LET r == pc[p]
           fee == TransferFee(r.amt)
           total == r.amt + fee
           refs == IF collide THEN {FreshRef(1), FreshRef(2)} ELSE {FreshRef(1), FreshRef(2), FreshRef(3)}
           out == TxnOutcome(r, refs, 3, {r.snap - total, r.snap2 + r.amt}) IN
       IF out = "ok"
         THEN /\ Room(3)
              /\ balance' = [balance EXCEPT ![r.u] = r.snap - total, ![r.u2] = r.snap2 + r.amt]
              /\ ledger' = ledger \o
                   << NewRow(FreshRef(1), r.u, "wallet_transfer", r.amt, fee, total,
                             r.snap, r.snap - total, "successful", "transfer", 0),
                      NewRow(FreshRef(2), r.u, "wallet_transfer", fee, 0, fee,
                             r.snap - r.amt, r.snap - total, "successful", "transfer", FreshRef(1)),
                      NewRow(FreshRef(3), r.u2, "wallet_transfer", r.amt, 0, r.amt,
                             r.snap2, r.snap2 + r.amt, "successful", "transfer", FreshRef(1)) >>
              /\ sumDebit' = [sumDebit EXCEPT ![r.u] = @ + total]
              /\ sumCredit' = [sumCredit EXCEPT ![r.u2] = @ + r.amt]
              /\ pc' = Finish(p, {r.u, r.u2}, {})
              /\ orch' = OrchFlag({r.u, r.u2}, {})
              /\ UNCHANGED <<locked, provider, audit>>
         ELSE /\ pc' = Finish(p, {}, {})
              /\ UNCHANGED <<balance, locked, ledger, provider, orch, audit, sumCredit, sumDebit>>

\* ------------------------------------------------- Amounts with fractions

\* Amounts as JavaScript numbers hold fractions of the currency unit.  Where
\* the fractions matter, 1 currency unit is Scale model units: a request
\* amount of a whole units is a * Scale, and 2% or 1.5% of it is exact.
Scale == 1000
Whole(x) == x % Scale = 0

\* Math.max(10, amount * 0.02), amount in model units
TransferFeeScaled(amount) == Max2(10 * Scale, (amount * 2) \div 100)

\* Math.max(50, amount * 0.015), amount in model units
WithdrawFeeScaled(amount) == Max2(50 * Scale, (amount * 15) \div 1000)

\* Whole request amounts: 2% of 500 is the minimum fee, 2% of 525 is 10.5;
\* 1.5% of 400 and 1000 is under the minimum fee, 1.5% of 3350 is 50.25.
FeeTransferAmounts == {500, 525}
FeeWithdrawAmounts == {400, 1000, 3350}
FeeBalance == 5000

FeeInit ==
  /\ balance = [u \in Users |-> IF u = "u1" THEN FeeBalance * Scale ELSE 0]
  /\ locked = [u \in Users |-> FALSE]
  /\ ledger = <<>>
  /\ provider = [n \in Providers |-> ProviderRow("active", FALSE)]
  /\ pc = [p \in Procs |-> Idle]
  /\ orch = [t \in Slots |-> NoRun]
  /\ audit = [t \in Slots |-> NoAudit]
  /\ sumCredit = [u \in Users |-> 0]
  /\ sumDebit = [u \in Users |-> 0]

\* WalletService.transferFunds for a whole request amount, run alone from
\* its reads to its commit, with the arithmetic of the code on amounts that
\* may hold fractions.  A guard that throws writes nothing.
transferFundsScaled(s, r, whole) ==
  LET amount == whole * Scale
      fee == TransferFeeScaled(amount)
      total == amount + fee IN
  /\ Quiet /\ Room(3)
  /\ s # r /\ ~locked[s] /\ ~locked[r]
  /\ balance[s] >= amount /\ balance[s] >= total
  /\ balance' = [balance EXCEPT ![s] = @ - total, ![r] = @ + amount]
  /\ ledger' = ledger \o
       << NewRow(FreshRef(1), s, "wallet_transfer", amount, fee, total,
                 balance[s], balance[s] - total, "successful", "transfer", 0),
          NewRow(FreshRef(2), s, "wallet_transfer", fee, 0, fee,
                 balance[s] - amount, balance[s] - total, "successful", "transfer", FreshRef(1)),
          NewRow(FreshRef(3), r, "wallet_transfer", amount, 0, amount,
                 balance[r], balance[r] + amount, "successful", "transfer", FreshRef(1)) >>
  /\ sumDebit' = [sumDebit EXCEPT ![s] = @ + total]
  /\ sumCredit' = [sumCredit EXCEPT ![r] = @ + amount]
  /\ UNCHANGED <<locked, provider, pc, orch, audit>>

\* walletController.withdrawToBank for a whole request amount, run alone:
\* the pending withdrawal row is created with the fee of the code; the debit
\* that follows is given the reference of that row, is rejected by the
\* unique index and writes nothing.
withdrawToBankScaled(u, whole) ==
  LET amount == whole * Scale
      fee == WithdrawFeeScaled(amount)
      total == amount + fee IN
  /\ Quiet /\ Room(1)
  /\ ~locked[u] /\ balance[u] >= total
  /\ ledger' = Append(ledger, NewRow(FreshRef(1), u, "withdrawal", amount, fee, total,
                                     balance[u], balance[u] - total, "pending", "withdrawToBank", 0))
  /\ UNCHANGED <<balance, locked, provider, pc, orch, audit, sumCredit, sumDebit>>

FeeNext ==
  \/ \E s \in Users, r \in Users, a \in FeeTransferAmounts : transferFundsScaled(s, r, a)
  \/ \E u \in Payers, a \in FeeWithdrawAmounts : withdrawToBankScaled(u, a)

\* The settlement runs of user u that are between the commit of their
\* reservation and the end of their provider loop.
InFlight(u) == {t \in Ids : ledger[t].user = u /\ orch[t].step \in {"select", "loop"}}

lockWallet(u) ==
  /\ Quiet /\ ~locked[u]
  /\ locked' = [locked EXCEPT ![u] = TRUE]
  /\ pc' = Flag(pc, {u}, {})
  /\ orch' = OrchFlag({u}, {})
  /\ audit' = [t \in Slots |-> IF t \in InFlight(u)
                                 THEN [audit[t] EXCEPT !.lockedInFlight = TRUE] ELSE audit[t]]
  /\ UNCHANGED <<balance, ledger, provider, sumCredit, sumDebit>>

unlockWallet(u) ==
  /\ Quiet /\ locked[u]
  /\ locked' = [locked EXCEPT ![u] = FALSE]
  /\ pc' = Flag(pc, {u}, {})
  /\ orch' = OrchFlag({u}, {})
  /\ UNCHANGED <<balance, ledger, provider, audit, sumCredit, sumDebit>>

\* ------------------------------------------------------ Transaction Ledger

\* TransactionService.createTransaction as called by purchaseData: a pending
\* row with previousBalance 0 and newBalance 0; a reference that is already
\* in the collection makes the save fail and nothing is created.
purchaseData(u, network, price) ==
  /\ Quiet /\ Room(2)
  /\ \E ref \in RefChoice :
       /\ ref \notin RefsUsed
       /\ ledger' = Append(ledger, NewRow(ref, u, "data_recharge", price, 0, price,
                                          0, 0, "pending", network, 0))
  /\ UNCHANGED <<balance, locked, provider, pc, orch, audit, sumCredit, sumDebit>>

\* walletAmount = Math.floor(airtimeAmount * swapRate), swapRate 0.7
SwapValue(airtimeAmount) == (airtimeAmount * 7) \div 10

\* telecomController.airtimeSwap up to createTransaction: the pending row has
\* amount airtimeAmount, fee 0, totalAmount 0 and newBalance walletAmount.
\* Its settlement is processTelecomTransaction, as for a purchase.  (The
\* creditWallet that follows a successful settlement is given the reference
\* of this row, is rejected by the unique index and writes nothing.)
airtimeSwap(u, network, airtimeAmount) ==
  /\ Quiet /\ Room(2)
  /\ \E ref \in RefChoice :
       /\ ref \notin RefsUsed
       /\ ledger' = Append(ledger, NewRow(ref, u, "airtime_swap", airtimeAmount, 0, 0,
                                          0, SwapValue(airtimeAmount), "pending", network, 0))
  /\ UNCHANGED <<balance, locked, provider, pc, orch, audit, sumCredit, sumDebit>>

\* TransactionService.createTransaction called without a reference: the
\* reference is Transaction.generateReference(), a timestamp followed by a
\* random number, which may or may not be in the collection already.  The
\* save is tried once; when the unique index rejects it the call throws
\* 'Failed to create transaction' and no row is written.
createTransaction(p, u, type, amount) ==
  /\ Accepts(p) /\ Room(1)
  /\ \E ref \in RefChoice :
       IF ref \notin RefsUsed
         THEN /\ ledger' = Append(ledger, NewRow(ref, u, type, amount, 0, amount, 0, 0,
                                                "pending", "createTransaction", 0))
              /\ pc' = [pc EXCEPT ![p] = [Idle EXCEPT !.op = "createTransaction", !.step = "returned",
                                                       !.u = u, !.t = Len(ledger) + 1, !.pre = "ok"]]
         ELSE /\ pc' = [pc EXCEPT ![p] = [Idle EXCEPT !.op = "createTransaction", !.step = "returned",
                                                       !.u = u, !.pre = "DuplicateKey"]]
              /\ UNCHANGED ledger
  /\ UNCHANGED <<balance, locked, provider, orch, audit, sumCredit, sumDebit>>

\* The caller has the transaction, or the error.
CreateReturn(p) ==
  /\ pc[p].op = "createTransaction" /\ pc[p].step = "returned"
  /\ pc' = [pc EXCEPT ![p] = Idle]
  /\ UNCHANGED <<balance, locked, ledger, provider, orch, audit, sumCredit, sumDebit>>

CreateNext ==
  \/ \E p \in Procs, u \in Users, a \in SettleAmounts \cup FundAmounts :
       createTransaction(p, u, "fund_wallet", a)
  \/ \E p \in Procs : CreateReturn(p)

\* ---------------------------------------------------- Settlement Orchestrator

\* Variant: the status of the transaction is not looked at.
ProcessPreAnyStatus(t) ==
  LET row == ledger[t] IN
  IF locked[row.user] THEN "WalletLocked"
  ELSE IF balance[row.user] < row.totalAmount THEN "InsufficientBalance"
  ELSE "ok"

ProcessPre(t) ==
  LET row == ledger[t] IN
  IF row.status # "pending" THEN "AlreadyProcessed"
  ELSE IF locked[row.user] THEN "WalletLocked"
  ELSE IF balance[row.user] < row.totalAmount THEN "InsufficientBalance"
  ELSE "ok"

BeginProcess(p, t) ==
  /\ Accepts(p)
  /\ ledger[t].type \in SettlementTypes
  /\ pc' = [pc EXCEPT ![p] = Open([Idle EXCEPT !.op = "processTelecomTransaction", !.step = "txn",
                                     !.t = t, !.u = ledger[t].user, !.pre = ProcessPre(t),
                                     !.snap = balance[ledger[t].user]])]
  /\ UNCHANGED <<balance, locked, ledger, provider, orch, audit, sumCredit, sumDebit>>

\* Commit of the reservation.  On "WalletLocked" and "InsufficientBalance" the
\* code saves status 'failed' inside the session and then throws, and the
\* catch block aborts the session: that write is rolled back with the rest.
\* previousBalance and newBalance are assigned after transaction.save() and
\* are never saved.
CommitProcess(p) ==
  /\ pc[p].op = "processTelecomTransaction" /\ pc[p].step = "txn" /\ Turn(p)
  /\ LET r == pc[p]
         t == r.t
         total == ledger[t].totalAmount
         out == TxnOutcome(r, {}, 0, {r.snap - total})
         hist == PreSaveHook(Append(ledger[t].statusHistory, "processing"), "processing") IN
     IF out = "ok"
       THEN /\ ledger' = [ledger EXCEPT ![t].status = "processing", ![t].statusHistory = hist]
            /\ balance' = [balance EXCEPT ![r.u] = r.snap - total]
            /\ sumDebit' = [sumDebit EXCEPT ![r.u] = @ + total]
            /\ audit' = [audit EXCEPT ![t].debits = @ + 1]
            /\ orch' = [OrchFlag({r.u}, {t}) EXCEPT ![t] = [NoRun EXCEPT !.step = "select", !.mem = hist]]
            /\ pc' = Finish(p, {r.u}, {t})
            /\ UNCHANGED <<locked, provider, sumCredit>>
       ELSE /\ pc' = Finish(p, {}, {})
            /\ UNCHANGED <<balance, locked, ledger, provider, orch, audit, sumCredit, sumDebit>>

Priority(n) == IF n = "mtn" THEN 1 ELSE 2

\* x comes no later than y under .sort({ priority: 1, successRate: -1 })
SortsBefore(x, y) ==
  \/ Priority(x) < Priority(y)
  \/ Priority(x) = Priority(y) /\ provider[x].successRate >= provider[y].successRate

RECURSIVE SortByPriority(_)
SortByPriority(S) ==
  IF S = {} THEN <<>>
  ELSE LET m == CHOOSE x \in S : \A y \in S : SortsBefore(x, y)
       IN <<m>> \o SortByPriority(S \ {m})

SeqWithout(q, x) == SelectSeq(q, LAMBDA y : y # x)

InSeq(q, x) == \E i \in 1..Len(q) : q[i] = x

\* TransactionService.getAvailableProviders
getAvailableProviders(preferred) ==
  LET providers == SortByPriority({n \in Providers : provider[n].status = "active"}) IN
  IF InSeq(providers, preferred) THEN <<preferred>> \o SeqWithout(providers, preferred)
  ELSE providers

OrchSelect(t) ==
  /\ Quiet /\ orch[t].step = "select"
  /\ orch' = [orch EXCEPT ![t].step = "loop", ![t].queue = getAvailableProviders(ledger[t].service)]
  /\ UNCHANGED <<balance, locked, ledger, provider, pc, audit, sumCredit, sumDebit>>

\* TelecomService.getAvailableProviders: the providers in service by
\* priority, the preferred one first when it is among them.
telecomAvailableProviders(preferred) ==
  LET providers == SortByPriority({n \in Providers : provider[n].status \in {"active", "degraded"}}) IN
  IF InSeq(providers, preferred) THEN <<preferred>> \o SeqWithout(providers, preferred)
  ELSE providers

\* findOneAndUpdate({providerName}, {$inc: {successfulRequests | failedRequests: 1,
\* totalRequests: 1}}): the counters move, successRate is not written.
Recorded(rows, n, ok) ==
  [rows EXCEPT ![n].totalRequests = @ + 1,
               ![n].successfulRequests = IF ok THEN @ + 1 ELSE @,
               ![n].failedRequests = IF ok THEN @ ELSE @ + 1]

\* The outcomes of the calls to the providers called, one after the other,
\* names[Len(names)] with outcome lastOk and the ones before it failing.
RECURSIVE RecordedAll(_, _, _)
RecordedAll(rows, names, lastOk) ==
  IF names = <<>> THEN rows
  ELSE RecordedAll(Recorded(rows, Head(names), Len(names) = 1 /\ lastOk), Tail(names), lastOk)

\* One iteration of the provider loop of TransactionService.processWithProvider:
\* it calls telecomService.processWithProvider(transaction, provider.providerName),
\* which draws its own list (the named provider first) and calls those
\* providers in turn, recording each outcome, until one fulfils: the k-th
\* (k = 0: none does, and the call throws).  A call that throws is recorded
\* once more against the provider of this iteration, and the loop goes on.
OrchAttempt(t, k) ==
  /\ Quiet /\ orch[t].step = "loop" /\ orch[t].queue # <<>>
  /\ LET inner == telecomAvailableProviders(Head(orch[t].queue))
         called == IF k = 0 THEN inner ELSE SubSeq(inner, 1, k)
         rows == RecordedAll(provider, called, k # 0) IN
     /\ k <= Len(inner)
     /\ audit' = [audit EXCEPT ![t].contacted = @ \o called, ![t].fulfilled = @ \/ (k # 0)]
     /\ provider' = IF k = 0 THEN Recorded(rows, Head(orch[t].queue), FALSE) ELSE rows
     /\ orch' = IF k # 0 THEN [orch EXCEPT ![t].step = "finalize", ![t].success = TRUE,
                                           ![t].queue = <<Head(@)>>]
                ELSE [orch EXCEPT ![t].queue = Tail(@)]
  /\ UNCHANGED <<balance, locked, ledger, pc, sumCredit, sumDebit>>

RefundPre(t) == IF ledger[t].status # "failed" THEN "NotFailed" ELSE "ok"

\* The writes of TransactionService.refundFailedTransaction
RefundWrites(t, snap, ref) ==
  LET row == ledger[t]
      total == row.totalAmount
      nb == snap + total IN
  /\ balance' = [balance EXCEPT ![row.user] = nb]
  /\ ledger' = Append([ledger EXCEPT ![t].status = "refunded",
                                     ![t].statusHistory = PreSaveHook(Append(@, "refunded"), "refunded")],
                      NewRow(ref, row.user, row.type, total, 0, total,
                             nb - total, nb, "successful", "refund", row.reference))
  /\ sumCredit' = [sumCredit EXCEPT ![row.user] = @ + total]
  /\ audit' = [audit EXCEPT ![t].credits = @ + 1]
  /\ UNCHANGED <<locked, provider, sumDebit>>

\* refundFailedTransaction up to its guard: the session is opened and the
\* transaction read; a status other than 'failed' throws at once.
OrchOpenRefund(t, step, errStep) ==
  IF RefundPre(t) = "ok"
    THEN [orch EXCEPT ![t].step = step, ![t].pre = "ok", ![t].snap = balance[ledger[t].user]]
    ELSE [orch EXCEPT ![t].step = errStep, ![t].out = RefundPre(t)]

\* Loop left without success: refundFailedTransaction is called (line 256)
\* before status 'failed' has been written.
OrchExhausted(t) ==
  /\ Quiet /\ orch[t].step = "loop" /\ orch[t].queue = <<>>
  /\ orch' = OrchOpenRefund(t, "refund1", "catch")
  /\ UNCHANGED <<balance, locked, ledger, provider, pc, audit, sumCredit, sumDebit>>

\* Variant: the writes are not undone when the insert of the refund row
\* fails: the credit and the status stay, the row is missing.
OrchRefundNoRollback(t) ==
  /\ orch[t].step \in {"refund1", "refund2"} /\ (Quiet \/ orch[t].conflict)
  /\ \E ref \in RefChoice :
       LET o == orch[t]
           u == ledger[t].user
           okStep == IF o.step = "refund1" THEN "finalize" ELSE "done"
           errStep == IF o.step = "refund1" THEN "catch" ELSE "done"
           out == TxnOutcome(o, {ref}, 1, {o.snap + ledger[t].totalAmount}) IN
       IF out = "ok"
         THEN /\ RefundWrites(t, o.snap, ref)
              /\ orch' = [OrchFlag({u}, {t}) EXCEPT ![t].step = okStep, ![t].out = "refunded",
                                                    ![t].snap = 0, ![t].pre = ""]
              /\ pc' = Flag(pc, {u}, {t})
         ELSE IF out = "DuplicateKey"
         THEN /\ balance' = [balance EXCEPT ![u] = o.snap + ledger[t].totalAmount]
              /\ ledger' = [ledger EXCEPT ![t].status = "refunded",
                                          ![t].statusHistory = PreSaveHook(Append(@, "refunded"), "refunded")]
              /\ sumCredit' = [sumCredit EXCEPT ![u] = @ + ledger[t].totalAmount]
              /\ audit' = [audit EXCEPT ![t].credits = @ + 1]
              /\ orch' = [OrchFlag({u}, {t}) EXCEPT ![t].step = errStep, ![t].out = out,
                                                    ![t].snap = 0, ![t].pre = ""]
              /\ pc' = Flag(pc, {u}, {t})
              /\ UNCHANGED <<locked, provider, sumDebit>>
         ELSE /\ orch' = [orch EXCEPT ![t].step = errStep, ![t].out = out, ![t].snap = 0,
                                      ![t].pre = "", ![t].conflict = FALSE]
              /\ UNCHANGED <<balance, locked, ledger, provider, pc, audit, sumCredit, sumDebit>>

\* The writes and the commit of refundFailedTransaction, called from the try
\* block ("refund1": on success the run goes on to its final update, when
\* it throws the catch block runs) or from the catch block ("refund2": when
\* it throws there the run ends with an unhandled rejection).
OrchRefund(t) ==
  /\ orch[t].step \in {"refund1", "refund2"} /\ (Quiet \/ orch[t].conflict)
  /\ \E ref \in RefChoice :
       LET o == orch[t]
           u == ledger[t].user
           okStep == IF o.step = "refund1" THEN "finalize" ELSE "done"
           errStep == IF o.step = "refund1" THEN "catch" ELSE "done"
           out == TxnOutcome(o, {ref}, 1, {o.snap + ledger[t].totalAmount}) IN
       IF out = "ok"
         THEN /\ RefundWrites(t, o.snap, ref)
              /\ orch' = [OrchFlag({u}, {t}) EXCEPT ![t].step = okStep, ![t].out = "refunded",
                                                    ![t].snap = 0, ![t].pre = ""]
              /\ pc' = Flag(pc, {u}, {t})
         ELSE /\ orch' = [orch EXCEPT ![t].step = errStep, ![t].out = out, ![t].snap = 0,
                                      ![t].pre = "", ![t].conflict = FALSE]
              /\ UNCHANGED <<balance, locked, ledger, provider, pc, audit, sumCredit, sumDebit>>

\* Variant: the final update ignores the outcome of the provider loop.
OrchFinalizeIgnoringSuccess(t) ==
  /\ Quiet /\ orch[t].step = "finalize"
  /\ ledger' = [ledger EXCEPT ![t].status = "failed", ![t].statusHistory = Append(orch[t].mem, "failed")]
  /\ orch' = [OrchFlag({}, {t}) EXCEPT ![t].step = "done", ![t].out = "failed"]
  /\ pc' = Flag(pc, {}, {t})
  /\ UNCHANGED <<balance, locked, provider, audit, sumCredit, sumDebit>>

\* Transaction.findByIdAndUpdate(transaction._id, updateData): status and the
\* whole statusHistory array are replaced from the in-memory document.
OrchFinalize(t) ==
  /\ Quiet /\ orch[t].step = "finalize"
  /\ LET st == IF orch[t].success THEN "successful" ELSE "failed"
         usedProvider == IF orch[t].success /\ orch[t].queue # <<>> THEN Head(orch[t].queue) ELSE "" IN
     /\ ledger' = [ledger EXCEPT ![t].status = st, ![t].statusHistory = Append(orch[t].mem, st),
                                 ![t].providerName = usedProvider]
     /\ orch' = [OrchFlag({}, {t}) EXCEPT ![t].step = "done", ![t].out = st]
     /\ pc' = Flag(pc, {}, {t})
     /\ provider' = IF orch[t].success /\ orch[t].queue # <<>>
                      THEN Recorded(provider, Head(orch[t].queue), TRUE) ELSE provider
  /\ UNCHANGED <<balance, locked, audit, sumCredit, sumDebit>>

\* Variant: the catch block replaces statusHistory by its new entry alone.
OrchCatchFreshHistory(t) ==
  /\ Quiet /\ orch[t].step = "catch"
  /\ ledger' = [ledger EXCEPT ![t].status = "failed", ![t].statusHistory = <<"failed">>]
  /\ orch' = [OrchFlag({}, {t}) EXCEPT ![t].step = "refund2begin"]
  /\ pc' = Flag(pc, {}, {t})
  /\ UNCHANGED <<balance, locked, provider, audit, sumCredit, sumDebit>>

\* catch block: status 'failed' is written, then the refund is called again.
OrchCatch(t) ==
  /\ Quiet /\ orch[t].step = "catch"
  /\ ledger' = [ledger EXCEPT ![t].status = "failed", ![t].statusHistory = Append(orch[t].mem, "failed")]
  /\ orch' = [OrchFlag({}, {t}) EXCEPT ![t].step = "refund2begin"]
  /\ pc' = Flag(pc, {}, {t})
  /\ UNCHANGED <<balance, locked, provider, audit, sumCredit, sumDebit>>

OrchRefund2Begin(t) ==
  /\ Quiet /\ orch[t].step = "refund2begin"
  /\ orch' = OrchOpenRefund(t, "refund2", "done")
  /\ UNCHANGED <<balance, locked, ledger, provider, pc, audit, sumCredit, sumDebit>>

\* AdminController.refundTransaction
AdminRefundPre(t) ==
  IF ledger[t].status = "refunded" THEN "AlreadyRefunded"
  ELSE IF ledger[t].status # "failed" THEN "NotFailed"
  ELSE IF \E j \in Ids : ledger[j].refundFor = ledger[t].reference THEN "RefundExists"
  ELSE RefundPre(t)

BeginAdminRefund(p, t) ==
  /\ Accepts(p)
  /\ pc' = [pc EXCEPT ![p] = Open([Idle EXCEPT !.op = "refundTransaction", !.step = "txn",
                                     !.t = t, !.u = ledger[t].user, !.pre = AdminRefundPre(t),
                                     !.snap = balance[ledger[t].user]])]
  /\ UNCHANGED <<balance, locked, ledger, provider, orch, audit, sumCredit, sumDebit>>

CommitAdminRefund(p) ==
  /\ pc[p].op = "refundTransaction" /\ pc[p].step = "txn" /\ Turn(p)
  /\ \E ref \in RefChoice :
       LET r == pc[p]
           out == TxnOutcome(r, {ref}, 1, {r.snap + ledger[r.t].totalAmount}) IN
       IF out = "ok"
         THEN /\ RefundWrites(r.t, r.snap, ref)
              /\ orch' = OrchFlag({r.u}, {r.t})
              /\ pc' = Finish(p, {r.u}, {r.t})
         ELSE /\ pc' = Finish(p, {}, {})
              /\ UNCHANGED <<balance, locked, ledger, provider, orch, audit, sumCredit, sumDebit>>

\* The provider catch of TransactionService.processWithProvider when its own
\* findOneAndUpdate throws (the database is unreachable for that write): the
\* call is not inside a try of its own, so the error leaves the loop and
\* lands in the outer catch.  The providers of this iteration were called.
OrchAttemptRecordFails(t) ==
  /\ Quiet /\ orch[t].step = "loop" /\ orch[t].queue # <<>>
  /\ LET inner == telecomAvailableProviders(Head(orch[t].queue)) IN
     /\ audit' = [audit EXCEPT ![t].contacted = @ \o inner, ![t].recordFailed = TRUE]
     /\ provider' = RecordedAll(provider, inner, FALSE)
  /\ orch' = [orch EXCEPT ![t].step = "catch"]
  /\ UNCHANGED <<balance, locked, ledger, pc, sumCredit, sumDebit>>

\* The success feedback of TransactionService.processWithProvider when its
\* findOneAndUpdate throws: the error lands in the outer catch before the
\* status of the fulfilled transaction is written.
OrchFinalizeRecordFails(t) ==
  /\ Quiet /\ orch[t].step = "finalize" /\ orch[t].success /\ orch[t].queue # <<>>
  /\ audit' = [audit EXCEPT ![t].recordFailed = TRUE]
  /\ orch' = [orch EXCEPT ![t].step = "catch"]
  /\ UNCHANGED <<balance, locked, ledger, provider, pc, sumCredit, sumDebit>>

\* Outcome recording that fails
FeedbackFaults ==
  \/ \E t \in Ids : OrchAttemptRecordFails(t)
  \/ \E t \in Ids : OrchFinalizeRecordFails(t)

\* The steps of settlement and refund on the purchases made so far
SettleSteps ==
  \/ \E p \in Procs, t \in Ids : BeginProcess(p, t)
  \/ \E p \in Procs : CommitProcess(p)
  \/ \E t \in Ids : OrchSelect(t)
  \/ \E t \in Ids, k \in 0..Cardinality(Providers) : OrchAttempt(t, k)
  \/ \E t \in Ids : OrchExhausted(t)
  \/ \E t \in Ids : OrchFinalize(t)
  \/ \E t \in Ids : OrchCatch(t)
  \/ \E t \in Ids : OrchRefund2Begin(t)
  \/ \E t \in Ids : OrchRefund(t)

\* The refund an administrator asks for
AdminSteps ==
  \/ \E p \in Procs, t \in Ids : BeginAdminRefund(p, t)
  \/ \E p \in Procs : CommitAdminRefund(p)

SettleNext ==
  \/ \E u \in Payers, n \in Providers, a \in SettleAmounts : purchaseData(u, n, a)
  \/ SettleSteps
  \/ AdminSteps

\* availableProviders.find(p => !triedProviders.includes(p.providerName))
Untried(t) ==
  SelectSeq(telecomAvailableProviders(ledger[t].providerName),
            LAMBDA n : n \notin ledger[t].triedProviders)

\* TelecomService.retryFailedTransaction up to the choice of the next
\* provider: the transaction is read outside any session; a status other
\* than 'failed', a used-up retry count or no untried provider throws.
retryFailedTransaction(p, t) ==
  /\ Accepts(p)
  /\ ledger[t].type \in SettlementTypes
  /\ ledger[t].status = "failed"
  /\ ledger[t].retryCount < maxRetries
  /\ Untried(t) # <<>>
  /\ pc' = [pc EXCEPT ![p] = [Idle EXCEPT !.op = "retryFailedTransaction", !.step = "retrysave",
                                           !.t = t, !.u = ledger[t].user,
                                           !.amt = ledger[t].retryCount,
                                           !.mem = Head(Untried(t))]]
  /\ UNCHANGED <<balance, locked, ledger, provider, orch, audit, sumCredit, sumDebit>>

\* transaction.retryCount += 1; transaction.provider = {...};
\* metadata.triedProviders.push(...); await transaction.save().  metadata is
\* a Mixed path: the push reaches the database only when mongoose has the
\* path marked as modified, so the stored list may or may not grow.  The
\* provider list of processWithProvider is read next.
RetrySave(p) ==
  /\ Quiet /\ pc[p].op = "retryFailedTransaction" /\ pc[p].step = "retrysave"
  /\ \E kept \in BOOLEAN :
       ledger' = [ledger EXCEPT ![pc[p].t].retryCount = pc[p].amt + 1,
                                ![pc[p].t].providerName = pc[p].mem,
                                ![pc[p].t].triedProviders = IF kept THEN @ \cup {pc[p].mem} ELSE @]
  /\ pc' = [Flag(pc, {}, {pc[p].t}) EXCEPT ![p].step = "retrycall",
                                           ![p].queue = telecomAvailableProviders(pc[p].mem)]
  /\ orch' = OrchFlag({}, {pc[p].t})
  /\ UNCHANGED <<balance, locked, provider, audit, sumCredit, sumDebit>>

\* this.processWithProvider(transaction, nextProvider.providerName): the
\* loop of TelecomService.processWithProvider over its own list, the chosen
\* provider first.  Each provider called has its outcome recorded; the k-th
\* fulfils and ends the retry (k = 0: 'All providers failed' or 'No available
\* providers', and the retry throws).  No status is written on either outcome.
RetryAttempt(p, k) ==
  /\ Quiet /\ pc[p].step = "retrycall" /\ k <= Len(pc[p].queue)
  /\ LET called == IF k = 0 THEN pc[p].queue ELSE SubSeq(pc[p].queue, 1, k) IN
     /\ audit' = [audit EXCEPT ![pc[p].t].retried = @ + Len(called), ![pc[p].t].attempts = @ + 1,
                               ![pc[p].t].fulfilled = @ \/ (k # 0)]
     /\ provider' = RecordedAll(provider, called, k # 0)
  /\ pc' = [pc EXCEPT ![p] = Idle]
  /\ UNCHANGED <<balance, locked, ledger, orch, sumCredit, sumDebit>>

RetryNext ==
  \/ \E p \in Procs, t \in Ids : retryFailedTransaction(p, t)
  \/ \E p \in Procs : RetrySave(p)
  \/ \E p \in Procs, k \in 0..Cardinality(Providers) : RetryAttempt(p, k)

\* ------------------------------------------------------- Wallet funding

\* walletController.fundWallet: the pending fund_wallet row of a payment that
\* the gateway will confirm or reject later.
fundWallet(u, amount) ==
  /\ Quiet /\ Room(2)
  /\ \E ref \in RefChoice :
       /\ ref \notin RefsUsed
       /\ ledger' = Append(ledger, NewRow(ref, u, "fund_wallet", amount, 0, amount,
                                          0, 0, "pending", "fundWallet", 0))
  /\ UNCHANGED <<balance, locked, provider, pc, orch, audit, sumCredit, sumDebit>>

\* The rows a gateway event can name.
FundRows == {t \in Ids : ledger[t].via = "fundWallet"}

\* The handler holds the document its findOne returned, with the status read.
Found(op, step, t, mem) ==
  [Idle EXCEPT !.op = op, !.step = step, !.t = t, !.u = ledger[t].user,
               !.amt = ledger[t].amount, !.mem = mem, !.pre = ledger[t].status]

\* webhookController.handleSuccessfulPayment, up to the findOne
handleSuccessfulPayment(p, t) ==
  /\ Accepts(p)
  /\ ledger[t].type = "fund_wallet" /\ ledger[t].status = "pending"
  /\ pc' = [pc EXCEPT ![p] = Found("handleSuccessfulPayment", "found", t, "successful")]
  /\ UNCHANGED <<balance, locked, ledger, provider, orch, audit, sumCredit, sumDebit>>

\* WalletService.creditWallet(transaction.user, amount, reference), its snapshot
HSPBeginCredit(p) ==
  /\ Quiet /\ pc[p].op = "handleSuccessfulPayment" /\ pc[p].step = "found"
  /\ pc' = [pc EXCEPT ![p] = Open([pc[p] EXCEPT !.step = "txn", !.pre = CreditPre(pc[p].u),
                                                 !.snap = balance[pc[p].u]])]
  /\ UNCHANGED <<balance, locked, ledger, provider, orch, audit, sumCredit, sumDebit>>

\* The commit of that credit: its ledger row carries the reference of the
\* pending row.  When it throws, the handler rethrows and saves nothing.
HSPCommitCredit(p) ==
  /\ pc[p].op = "handleSuccessfulPayment" /\ pc[p].step = "txn" /\ Turn(p)
  /\ LET r == pc[p]
         ref == ledger[r.t].reference
         out == TxnOutcome(r, {ref}, 1, {r.snap + r.amt}) IN
     IF out = "ok"
       THEN /\ Room(1)
            /\ CreditWrites(r, ref)
            /\ audit' = [audit EXCEPT ![r.t].credits = @ + 1]
            /\ pc' = [Flag(pc, {r.u}, {}) EXCEPT ![p] = Found(r.op, "save", r.t, r.mem)]
       ELSE /\ pc' = Finish(p, {}, {})
            /\ UNCHANGED <<balance, locked, ledger, provider, orch, audit, sumCredit, sumDebit>>

\* webhookController.handleFailedPayment, up to the findOne
handleFailedPayment(p, t) ==
  /\ Accepts(p)
  /\ ledger[t].type = "fund_wallet" /\ ledger[t].status = "pending"
  /\ pc' = [pc EXCEPT ![p] = Found("handleFailedPayment", "save", t, "failed")]
  /\ UNCHANGED <<balance, locked, ledger, provider, orch, audit, sumCredit, sumDebit>>

\* paymentController.paystackWebhook on charge.success, up to the status test
paystackWebhook(p, t) ==
  /\ Accepts(p)
  /\ ledger[t].status # "completed"
  /\ pc' = [pc EXCEPT ![p] = Found("paystackWebhook", "inc", t, "completed")]
  /\ UNCHANGED <<balance, locked, ledger, provider, orch, audit, sumCredit, sumDebit>>

\* paymentController.verifyPaystackPayment, up to the status test
verifyPaystackPayment(p, t) ==
  /\ Accepts(p)
  /\ ledger[t].status = "pending"
  /\ pc' = [pc EXCEPT ![p] = Found("verifyPaystackPayment", "inc", t, "completed")]
  /\ UNCHANGED <<balance, locked, ledger, provider, orch, audit, sumCredit, sumDebit>>

\* Wallet.findOneAndUpdate({user}, {$inc: {balance: transaction.amount}})
HandlerInc(p) ==
  /\ Quiet /\ pc[p].step = "inc"
  /\ LET r == pc[p] IN
     /\ balance[r.u] + r.amt <= MaxBalance
     /\ balance' = [balance EXCEPT ![r.u] = @ + r.amt]
     /\ sumCredit' = [sumCredit EXCEPT ![r.u] = @ + r.amt]
     /\ audit' = [audit EXCEPT ![r.t].credits = @ + 1]
     /\ pc' = [Flag(pc, {r.u}, {}) EXCEPT ![p].step = "save"]
     /\ orch' = OrchFlag({r.u}, {})
  /\ UNCHANGED <<locked, ledger, provider, sumDebit>>

\* transaction.status = ...; transaction.statusHistory.push(...);
\* await transaction.save(): the schema validates status against its enum,
\* and a failed validation writes nothing.
HandlerSave(p) ==
  /\ Quiet /\ pc[p].step = "save"
  /\ LET r == pc[p] IN
     IF r.mem \in StatusEnum
       THEN /\ ledger' = [ledger EXCEPT ![r.t].status = r.mem,
                            ![r.t].statusHistory = PreSaveHook(Append(@, r.mem), r.mem)]
            /\ pc' = Finish(p, {}, {r.t})
            /\ orch' = OrchFlag({}, {r.t})
       ELSE /\ pc' = Finish(p, {}, {})
            /\ UNCHANGED <<ledger, orch>>
  /\ UNCHANGED <<balance, locked, provider, audit, sumCredit, sumDebit>>

FundNext ==
  \/ \E u \in Payers, a \in FundAmounts : fundWallet(u, a)
  \/ \E p \in Procs, t \in FundRows : handleSuccessfulPayment(p, t)
  \/ \E p \in Procs : HSPBeginCredit(p)
  \/ \E p \in Procs : HSPCommitCredit(p)
  \/ \E p \in Procs, t \in FundRows : handleFailedPayment(p, t)
  \/ \E p \in Procs, t \in FundRows : paystackWebhook(p, t)
  \/ \E p \in Procs, t \in FundRows : verifyPaystackPayment(p, t)
  \/ \E p \in Procs : HandlerInc(p)
  \/ \E p \in Procs : HandlerSave(p)

\* ------------------------------------------------------- Bank withdrawal

\* fee = Math.max(50, amount * 0.015); exact for the amounts of WithdrawAmounts
WithdrawFee(amount) == Max2(50, (amount * 15) \div 1000)

\* The reference handleFailedTransfer credits under: `REFUND-${reference}`
RefundRef(t) == 0 - ledger[t].reference

\* walletController.withdrawToBank up to createTransaction: the lock and the
\* balance are tested on a plain read, then the pending withdrawal row is
\* created under a new reference.
withdrawToBank(p, u, amount) ==
  /\ Accepts(p) /\ Room(2)
  /\ ~locked[u]
  /\ balance[u] >= amount + WithdrawFee(amount)
  /\ \E ref \in RefChoice :
       /\ ref \notin RefsUsed
       /\ ledger' = Append(ledger, NewRow(ref, u, "withdrawal", amount, WithdrawFee(amount),
                                          amount + WithdrawFee(amount), balance[u],
                                          balance[u] - (amount + WithdrawFee(amount)),
                                          "pending", "withdrawToBank", 0))
       /\ pc' = [pc EXCEPT ![p] = [Idle EXCEPT !.op = "withdrawToBank", !.step = "created",
                                                !.t = Len(ledger) + 1, !.u = u,
                                                !.amt = amount + WithdrawFee(amount)]]
  /\ UNCHANGED <<balance, locked, provider, orch, audit, sumCredit, sumDebit>>

\* WalletService.debitWallet(userId, totalAmount, reference, ...), its snapshot
WithdrawBeginDebit(p) ==
  /\ Quiet /\ pc[p].op = "withdrawToBank" /\ pc[p].step = "created"
  /\ pc' = [pc EXCEPT ![p] = Open([pc[p] EXCEPT !.step = "txn",
                                                 !.pre = DebitPre(pc[p].u, pc[p].amt),
                                                 !.snap = balance[pc[p].u]])]
  /\ UNCHANGED <<balance, locked, ledger, provider, orch, audit, sumCredit, sumDebit>>

\* The commit of that debit: its ledger row carries the reference of the
\* withdrawal row created just before.  When it throws the controller calls
\* next(error); only after a committed debit is the completion timer set,
\* which marks the row successful with findByIdAndUpdate as the provider
\* loop's final update does.
WithdrawCommitDebit(p) ==
  /\ pc[p].op = "withdrawToBank" /\ pc[p].step = "txn" /\ Turn(p)
  /\ LET r == pc[p]
         ref == ledger[r.t].reference
         out == TxnOutcome(r, {ref}, 1, {r.snap - r.amt}) IN
     IF out = "ok"
       THEN /\ balance' = [balance EXCEPT ![r.u] = r.snap - r.amt]
            /\ ledger' = Append(ledger, NewRow(ref, r.u, "wallet_transfer", r.amt, 0, r.amt,
                                               r.snap, r.snap - r.amt, "successful", "debitWallet", 0))
            /\ sumDebit' = [sumDebit EXCEPT ![r.u] = @ + r.amt]
            /\ audit' = [audit EXCEPT ![r.t].debits = @ + 1]
            /\ orch' = [OrchFlag({r.u}, {}) EXCEPT ![r.t] =
                          [NoRun EXCEPT !.step = "finalize", !.success = TRUE,
                                        !.mem = ledger[r.t].statusHistory]]
            /\ pc' = Finish(p, {r.u}, {})
            /\ UNCHANGED <<locked, provider, sumCredit>>
       ELSE /\ pc' = Finish(p, {}, {})
            /\ UNCHANGED <<balance, locked, ledger, provider, orch, audit, sumCredit, sumDebit>>

\* The rows a transfer event of the gateway can name.
WithdrawalRows == {t \in Ids : ledger[t].type = "withdrawal"}

\* webhookController.handleSuccessfulTransfer, up to the findOne
handleSuccessfulTransfer(p, t) ==
  /\ Accepts(p)
  /\ ledger[t].type = "withdrawal" /\ ledger[t].status = "pending"
  /\ pc' = [pc EXCEPT ![p] = Found("handleSuccessfulTransfer", "save", t, "successful")]
  /\ UNCHANGED <<balance, locked, ledger, provider, orch, audit, sumCredit, sumDebit>>

\* Variant: the amount without the fee is given back.
handleFailedTransferAmountOnly(p, t) ==
  /\ Accepts(p)
  /\ ledger[t].type = "withdrawal" /\ ledger[t].status = "pending"
  /\ pc' = [pc EXCEPT ![p] = [Found("handleFailedTransfer", "found", t, "refunded")
                                EXCEPT !.amt = ledger[t].amount]]
  /\ UNCHANGED <<balance, locked, ledger, provider, orch, audit, sumCredit, sumDebit>>

\* webhookController.handleFailedTransfer, up to the findOne
handleFailedTransfer(p, t) ==
  /\ Accepts(p)
  /\ ledger[t].type = "withdrawal" /\ ledger[t].status = "pending"
  /\ pc' = [pc EXCEPT ![p] = [Found("handleFailedTransfer", "found", t, "refunded")
                                EXCEPT !.amt = ledger[t].totalAmount]]
  /\ UNCHANGED <<balance, locked, ledger, provider, orch, audit, sumCredit, sumDebit>>

\* WalletService.creditWallet(transaction.user, transaction.totalAmount,
\* `REFUND-${reference}`), its snapshot
HFTBeginCredit(p) ==
  /\ Quiet /\ pc[p].op = "handleFailedTransfer" /\ pc[p].step = "found"
  /\ pc' = [pc EXCEPT ![p] = Open([pc[p] EXCEPT !.step = "txn", !.pre = CreditPre(pc[p].u),
                                                 !.snap = balance[pc[p].u]])]
  /\ UNCHANGED <<balance, locked, ledger, provider, orch, audit, sumCredit, sumDebit>>

\* The commit of that credit.  When it throws, the handler rethrows and
\* saves nothing; otherwise it goes on to save status 'refunded'.
HFTCommitCredit(p) ==
  /\ pc[p].op = "handleFailedTransfer" /\ pc[p].step = "txn" /\ Turn(p)
  /\ LET r == pc[p]
         ref == RefundRef(r.t)
         out == TxnOutcome(r, {ref}, 1, {r.snap + r.amt}) IN
     IF out = "ok"
       THEN /\ Room(1)
            /\ CreditWrites(r, ref)
            /\ audit' = [audit EXCEPT ![r.t].credits = @ + 1]
            /\ pc' = [Flag(pc, {r.u}, {}) EXCEPT
                        ![p] = [Found(r.op, "save", r.t, r.mem) EXCEPT !.amt = r.amt]]
       ELSE /\ pc' = Finish(p, {}, {})
            /\ UNCHANGED <<balance, locked, ledger, provider, orch, audit, sumCredit, sumDebit>>

WithdrawNext ==
  \/ \E p \in Procs, u \in Payers, a \in WithdrawAmounts : withdrawToBank(p, u, a)
  \/ \E p \in Procs : WithdrawBeginDebit(p)
  \/ \E p \in Procs : WithdrawCommitDebit(p)
  \/ \E p \in Procs, t \in WithdrawalRows : handleSuccessfulTransfer(p, t)
  \/ \E p \in Procs, t \in WithdrawalRows : handleFailedTransfer(p, t)
  \/ \E p \in Procs : HFTBeginCredit(p)
  \/ \E p \in Procs : HFTCommitCredit(p)
  \/ \E p \in Procs : HandlerSave(p)

WalletNext ==
  \/ \E p \in Procs, u \in Payers, a \in CreditAmounts : BeginCredit(p, u, a)
  \/ \E p \in Procs : CommitCredit(p)
  \/ \E p \in Procs, u \in Payers, a \in DebitAmounts : BeginDebit(p, u, a)
  \/ \E p \in Procs : CommitDebit(p)
  \/ \E p \in Procs, s \in Payers, r \in Users, a \in TransferAmounts : BeginTransfer(p, s, r, a)
  \/ \E p \in Procs : CommitTransfer(p)
  \/ \E u \in Users : lockWallet(u)
  \/ \E u \in Users : unlockWallet(u)

LockNext ==
  \/ \E u \in Payers : lockWallet(u)
  \/ \E u \in Payers : unlockWallet(u)

DebitNext ==
  \/ \E p \in Procs, u \in Payers, a \in DebitAmounts : BeginDebit(p, u, a)
  \/ \E p \in Procs : CommitDebit(p)

\* Debits at the edge of the balance
DebitEdgeNext ==
  \/ \E p \in Procs, u \in Payers, a \in DebitEdgeAmounts : BeginDebit(p, u, a)
  \/ \E p \in Procs : CommitDebit(p)

\* Peer transfers to every kind of recipient, with locks on both sides
TransferNext ==
  \/ \E p \in Procs, s \in Payers, r \in Recipients, a \in TransferEdgeAmounts :
       BeginTransfer(p, s, r, a)
  \/ \E p \in Procs : CommitTransfer(p)
  \/ \E u \in Users : lockWallet(u)
  \/ \E u \in Users : unlockWallet(u)

\* Purchases, their settlement and refunds, next to direct wallet debits
Next == SettleNext \/ LockNext \/ DebitNext

Spec == Init /\ [][Next]_vars

\* The wallet store alone: credits, debits, transfers, locks of both users
WalletSpec == Init /\ [][WalletNext]_vars

\* Purchases and their settlement, with any set of providers in service
SettleSpec == SettleInit /\ [][SettleNext \/ LockNext]_vars

\* Gateway-funded payments and their confirmations
FundSpec == Init /\ [][FundNext \/ LockNext]_vars

\* Bank withdrawals and the gateway's transfer events
WithdrawSpec == Init /\ [][WithdrawNext \/ LockNext]_vars

\* Purchases, their settlement and refunds, next to retries of failed ones
\* (one purchase, so that its retries can be followed to the end)
RetryPurchase ==
  \E u \in Payers, n \in Providers, a \in SettleAmounts : Ids = {} /\ purchaseData(u, n, a)

RetrySpec == Init /\ [][RetryPurchase \/ SettleSteps \/ RetryNext]_vars

\* One purchase and its settlement, the providers in any status
ProviderSpec == ProviderInit /\ [][RetryPurchase \/ SettleSteps]_vars

\* One purchase and its settlement, with outcome recording that may fail
FeedbackSpec == Init /\ [][RetryPurchase \/ SettleSteps \/ FeedbackFaults]_vars

\* The first retry of a failed purchase, by one handler
RetryOnce ==
  \/ \E t \in Ids : ledger[t].retryCount = 0 /\ retryFailedTransaction("h1", t)
  \/ RetrySave("h1")
  \/ \E k \in 0..Cardinality(Providers) : RetryAttempt("h1", k)

\* One purchase, its settlement, an administrator's refund and one retry
RefundRaceSpec == Init /\ [][RetryPurchase \/ SettleSteps \/ AdminSteps \/ RetryOnce]_vars

\* One airtime swap and its settlement, with locks
SwapPurchase ==
  \E u \in Payers, n \in Providers, a \in SettleAmounts : Ids = {} /\ airtimeSwap(u, n, a)

SwapSpec == Init /\ [][SwapPurchase \/ SettleSteps \/ LockNext]_vars

\* Transfers and withdrawals of whole amounts whose fee may hold a fraction
FeeSpec == FeeInit /\ [][FeeNext \/ LockNext]_vars

\* Creation of transactions under generated references
CreateSpec == Init /\ [][CreateNext]_vars

\* Direct debits at the edge of the balance, with locks
DebitSpec == Init /\ [][DebitEdgeNext \/ LockNext]_vars

\* Peer transfers alone
TransferSpec == Init /\ [][TransferNext]_vars

\* ------------------------------------------------------------------ claims

CreditedAtMostOncePerReference ==
  \A t \in Ids : ledger[t].via = "fundWallet" => audit[t].credits <= 1

\* C4: a success confirmation for a pending fund_wallet transaction credits
\* the wallet with the confirmed amount and leaves the transaction successful.
ConfirmationCreditsAndSettles ==
  [][\A p \in Procs :
       pc[p].op = "handleSuccessfulPayment" =>
         /\ (pc[p].step = "txn" /\ pc[p].pre = "ok" /\ ~pc[p].conflict /\ pc'[p].step # "txn")
              => (pc'[p].step = "save" /\ balance'[pc[p].u] = balance[pc[p].u] + pc[p].amt)
         /\ (pc[p].step = "save" /\ pc'[p].op = "idle")
              => ledger'[pc[p].t].status = "successful"]_vars

RefundRows(t) == {j \in Ids : ledger[j].refundFor = ledger[t].reference}

\* C5: a transaction that failed after its funds were reserved has exactly
\* one refund row naming its reference and its wallet was credited back
\* exactly once, once its settlement run has ended.
ExactlyOneRefund ==
  \A t \in Ids :
    (orch[t].step = "done" /\ ~orch[t].success)
      => (Cardinality(RefundRows(t)) = 1 /\ audit[t].credits = 1)

\* C6: a reserved transaction whose candidate providers all fail, or that
\* has no candidate, ends refunded with the reserved amount back in the
\* wallet.
ExhaustionEndsRefunded ==
  \A t \in Ids :
    (orch[t].step = "done" /\ ~orch[t].success /\ Len(audit[t].contacted) \in 0..(Cardinality(Providers) * Cardinality(Providers)))
      => (ledger[t].status = "refunded" /\ audit[t].credits = audit[t].debits)

\* C7: no transaction is persisted as failed after its reservation while the
\* reserved amount is still missing from the wallet.
NoFailedWhileFundsMissing ==
  \A t \in Ids : ledger[t].status = "failed" => audit[t].credits >= audit[t].debits

\* C8: processTelecomTransaction on a pending transaction whose wallet is
\* locked or short of totalAmount leaves the transaction persisted as
\* failed, the balance unchanged, and contacts no provider.
RejectedReservationPersistsFailed ==
  [][\A p \in Procs :
       (/\ pc[p].op = "processTelecomTransaction"
        /\ pc[p].pre \in {"WalletLocked", "InsufficientBalance"}
        /\ pc'[p].op = "idle")
         => (/\ ledger'[pc[p].t].status = "failed"
             /\ balance' = balance
             /\ audit' = audit)]_vars

\* C9: processTelecomTransaction on a transaction that is not pending fails
\* as already processed and changes neither wallet nor ledger, and no
\* transaction is ever debited more than once.
AlreadyProcessedChangesNothing ==
  [][/\ \A p \in Procs :
          /\ (pc[p].op = "idle" /\ pc'[p].op = "processTelecomTransaction"
              /\ ledger[pc'[p].t].status # "pending")
               => pc'[p].pre = "AlreadyProcessed"
          /\ (pc[p].op = "processTelecomTransaction" /\ pc[p].pre = "AlreadyProcessed"
              /\ pc'[p].op = "idle")
               => (balance' = balance /\ locked' = locked /\ ledger' = ledger)
     /\ \A t \in Slots : audit'[t].debits <= 1]_vars

\* A process call was turned away from a transaction that had been debited.
AlreadyProcessedWitness ==
  \E p \in Procs : /\ pc[p].op = "processTelecomTransaction"
                   /\ pc[p].pre = "AlreadyProcessed"
                   /\ audit[pc[p].t].debits = 1

\* C10: every ledger row tied to a wallet mutation records the balance
\* before and after it, totalAmount apart; a reserved settlement
\* transaction is persisted with previousBalance - newBalance = totalAmount.
LedgerRowBalancesAgree ==
  \A t \in Ids :
    /\ ledger[t].via \in {"creditWallet", "refund"}
         => ledger[t].newBalance - ledger[t].previousBalance = ledger[t].totalAmount
    /\ ledger[t].via \in {"debitWallet"}
         => ledger[t].previousBalance - ledger[t].newBalance = ledger[t].totalAmount
    /\ (ledger[t].via = "purchase" /\ ledger[t].status # "pending")
         => ledger[t].previousBalance - ledger[t].newBalance = ledger[t].totalAmount


\* C11: every step that changes a wallet's balance creates, in the same
\* atomic step, a new ledger row (exactly one for a credit, a debit or a
\* refund).  Violated under FundSpec: the gateway handlers $inc the balance
\* and write no row at all.
BalanceChangeAddsRow ==
  [][(\E u \in Users : balance'[u] # balance[u]) => Len(ledger') > Len(ledger)]_vars

TerminalStatusKept ==
  [][\A t \in Ids : ledger[t].status \in {"successful", "refunded"}
                      => ledger'[t].status = ledger[t].status]_vars

\* C15: once a transaction is refunded, no provider is contacted for it any
\* more, whatever the interleaving of retries and refunds.  (Violated under
\* RefundRaceSpec: a retry that read status failed calls the provider after the
\* refund has committed.)
NoContactAfterRefund ==
  [][\A t \in Ids : ledger[t].status = "refunded"
                      => /\ audit'[t].contacted = audit[t].contacted
                         /\ audit'[t].retried = audit[t].retried]_vars

\* C14: a transaction that reached processing gets to successful or to
\* refunded: once the settlement run that reserved its funds is over, its
\* status is one of the two.  (Violated under SettleSpec: a refund lost to a
\* write conflict leaves the transaction failed with nothing left to run.)
ProcessingEndsSettled ==
  \A t \in Ids :
    orch[t].step = "done" => ledger[t].status \in {"successful", "refunded"}

\* C16: while a wallet is locked no step changes its balance.  (Violated
\* under FundSpec: the gateway handlers $inc the balance without reading the
\* lock; under SettleSpec the refund credits a locked wallet as well.)
LockedBalanceFrozen ==
  [][\A u \in Users : locked[u] => balance'[u] = balance[u]]_vars

\* C17: a transaction whose wallet was locked between the commit of its
\* reservation and the end of its provider loop still completes: when its
\* run is over it is successful, or refunded with the reserved amount
\* credited back.  (Violated under SettleSpec through the lost refund.)
LockedInFlightCompletes ==
  \A t \in Ids :
    (audit[t].lockedInFlight /\ orch[t].step = "done")
      => \/ ledger[t].status = "successful"
         \/ ledger[t].status = "refunded" /\ audit[t].credits = audit[t].debits

\* Nothing of the wallets or the ledger is written by the step.
Untouched == balance' = balance /\ locked' = locked /\ ledger' = ledger

IsPrefix(a, b) == Len(a) <= Len(b) /\ SubSeq(b, 1, Len(a)) = a

DebitAtTheEdge ==
  [][\A p \in Procs :
       /\ (pc[p].op = "idle" /\ pc'[p].op = "debitWallet" /\ ~locked[pc'[p].u])
            => pc'[p].pre = IF pc'[p].amt <= balance[pc'[p].u] THEN "ok" ELSE "InsufficientBalance"
       /\ (pc[p].op = "debitWallet" /\ pc'[p].op = "idle" /\ pc[p].pre = "InsufficientBalance")
            => Untouched
       /\ (pc[p].op = "debitWallet" /\ pc'[p].op = "idle" /\ ~Untouched)
            => /\ balance'[pc[p].u] = balance[pc[p].u] - pc[p].amt
               /\ Len(ledger') = Len(ledger) + 1
               /\ ledger'[Len(ledger')].newBalance = balance'[pc[p].u]]_vars

\* The whole balance was debited to 0, and a debit of balance + 1 is being
\* refused.
DebitAtTheEdgeWitness ==
  \E p \in Procs :
    /\ pc[p].op = "debitWallet" /\ pc[p].pre = "InsufficientBalance"
    /\ pc[p].amt = balance[pc[p].u] + 1
    /\ balance[pc[p].u] = 0
    /\ \E t \in Ids : ledger[t].via = "debitWallet" /\ ledger[t].newBalance = 0
                      /\ ledger[t].previousBalance = ledger[t].amount

\* C22: a peer transfer is applied whole or not at all, and when it is
\* applied, with fee = max(10, 2% of amount), the sender's balance falls by
\* amount + fee, the recipient's rises by amount, and exactly three rows
\* are written: the sender's transfer row (totalAmount = amount + fee), the
\* fee row and the recipient's credit row, the last two linked to the
\* reference of the first.
TransferAppliedWhole ==
  [][\A p \in Procs :
       (pc[p].op = "transferFunds" /\ pc'[p].op = "idle")
         => \/ Untouched
            \/ LET s == pc[p].u
                   r == pc[p].u2
                   amount == pc[p].amt
                   fee == IF amount * 2 > 1000 THEN (amount * 2) \div 100 ELSE 10
                   n == Len(ledger) IN
               /\ balance'[s] = balance[s] - (amount + fee)
               /\ balance'[r] = balance[r] + amount
               /\ \A u \in Users \ {s, r} : balance'[u] = balance[u]
               /\ Len(ledger') = n + 3 /\ SubSeq(ledger', 1, n) = ledger
               /\ ledger'[n + 1].user = s /\ ledger'[n + 1].amount = amount
               /\ ledger'[n + 1].fee = fee /\ ledger'[n + 1].totalAmount = amount + fee
               /\ ledger'[n + 2].user = s /\ ledger'[n + 2].totalAmount = fee
               /\ ledger'[n + 3].user = r /\ ledger'[n + 3].totalAmount = amount
               /\ ledger'[n + 2].linkedReference = ledger'[n + 1].reference
               /\ ledger'[n + 3].linkedReference = ledger'[n + 1].reference
               /\ \A i \in {n + 1, n + 2, n + 3} : ledger'[i].status = "successful"]_vars

\* A transfer of 600 (fee 12) was applied.
TransferAppliedWitness ==
  /\ balance["u1"] = InitBalance["u1"] - 612
  /\ balance["u2"] = InitBalance["u2"] + 600
  /\ Len(ledger) = 3

\* C23: a peer transfer is rejected when a wallet is missing, when either
\* wallet is locked, when sender and recipient are the same user, or when
\* the sender's balance is below amount + fee; a rejected transfer changes
\* no wallet and no ledger row.
TransferRejections ==
  [][\A p \in Procs :
       /\ (pc[p].op = "idle" /\ pc'[p].op = "transferFunds")
            => LET s == pc'[p].u
                   r == pc'[p].u2
                   amount == pc'[p].amt
                   fee == IF amount * 2 > 1000 THEN (amount * 2) \div 100 ELSE 10 IN
               (\/ s = r
                \/ r \notin Users
                \/ locked[s]
                \/ (r \in Users /\ locked[r])
                \/ balance[s] < amount + fee) <=> pc'[p].pre # "ok"
       /\ (pc[p].op = "transferFunds" /\ pc[p].pre # "ok" /\ pc'[p].op = "idle")
            => Untouched]_vars

\* A transfer to a locked recipient is being rejected; nothing has changed.
TransferRejectionsWitness ==
  \E p \in Procs :
    /\ pc[p].op = "transferFunds" /\ pc[p].pre = "RecipientLocked"
    /\ balance = InitBalance /\ ledger = <<>>

\* The candidate list as specified: the providers with status active or
\* degraded that are outside their maintenance window, by priority then
\* success rate, the preferred one moved to the front.
Candidates(preferred) ==
  LET providers == SortByPriority({n \in Providers : /\ provider[n].status \in {"active", "degraded"}
                                                     /\ ~provider[n].inWindow}) IN
  IF InSeq(providers, preferred) THEN <<preferred>> \o SeqWithout(providers, preferred)
  ELSE providers

\* C24: the candidate list settlement works through is exactly the providers
\* with status active or degraded that are outside their maintenance window,
\* by ascending priority then descending successRate, the preferred provider
\* first when it is among them.  (Violated under ProviderSpec: settlement
\* leaves out the degraded providers and keeps those under maintenance.)
CandidateListAsSpecified ==
  [][\A t \in Ids : orch[t].step = "select" /\ orch'[t].step = "loop"
                      => orch'[t].queue = Candidates(ledger[t].service)]_vars

\* C25: during one processing of a transaction each provider is contacted at
\* most once.
\* (Violated under ProviderSpec: every iteration of the settlement loop
\* hands the transaction to a service that goes through the providers again.)
ContactedAtMostOnce ==
  \A t \in Ids : \A i, j \in 1..Len(audit[t].contacted) :
    i < j => audit[t].contacted[i] # audit[t].contacted[j]

\* C26: once an outcome has been recorded for a provider, its successRate is
\* successfulRequests / totalRequests as a percentage.  (Violated under
\* ProviderSpec: settlement moves the counters and leaves successRate as it
\* was.)
SuccessRateFollowsCounters ==
  \A n \in Providers :
    provider[n].totalRequests > 0
      => provider[n].successRate * provider[n].totalRequests = 100 * provider[n].successfulRequests

\* C27: a failure while recording a provider outcome does not change the
\* settlement result: a transaction a provider has fulfilled still ends
\* successful, and one whose call failed still has the remaining candidates
\* tried before it is given up.  (Violated under FeedbackSpec: the recording
\* error falls through to the handler that fails and refunds the
\* transaction.)
RecordingFailureHarmless ==
  \A t \in Ids :
    audit[t].recordFailed /\ orch[t].step = "done"
      => /\ orch[t].success => ledger[t].status = "successful"
         /\ ~orch[t].success => orch[t].queue = <<>>

\* C28: over any sequence or interleaving of retry calls, the number of
\* retry attempts made for one transaction never exceeds maxRetries.
\* (Violated under RetrySpec: two retries that read the same retryCount both
\* go ahead and both store the same incremented value.)
RetryAttemptsBounded == \A t \in Ids : audit[t].attempts <= maxRetries

\* C29: the provider a retry calls first has not been contacted for that
\* transaction in its initial processing.  (Violated under RetrySpec: the
\* list of tried providers only ever holds the choices of earlier retries.)
RetryContactsUntried ==
  [][\A p \in Procs :
       pc[p].step = "retrycall" /\ pc'[p].step # "retrycall" /\ pc[p].queue # <<>>
         => ~InSeq(audit[pc[p].t].contacted, Head(pc[p].queue))]_vars

\* C30: a payment confirmation for a transaction that is not pending when
\* the handler reads it changes no wallet balance.  (Violated under
\* FundSpec: the gateway webhook only stands back from status completed.)
NonPendingConfirmationNoOp ==
  [][\A p \in Procs :
       pc[p].step = "inc" /\ balance'[pc[p].u] # balance[pc[p].u] => pc[p].pre = "pending"]_vars

CreationAlwaysSucceeds ==
  \A p \in Procs : pc[p].op = "createTransaction" => pc[p].pre = "ok"

\* C33: every ledger row has totalAmount = amount + fee.  (Violated under
\* SwapSpec: the row of an airtime swap is created with the airtime amount
\* as amount and a totalAmount of 0.)
TotalIsAmountPlusFee ==
  \A t \in Ids : ledger[t].totalAmount = ledger[t].amount + ledger[t].fee

\* C34: with whole request amounts, every wallet balance and every ledger
\* amount, fee and totalAmount is a whole number of currency units.
\* (Violated under FeeSpec: 2% of 525 is 10.5 and 1.5% of 3350 is 50.25.)
AmountsAreWhole ==
  /\ \A u \in Users : Whole(balance[u])
  /\ \A t \in Ids : Whole(ledger[t].amount) /\ Whole(ledger[t].fee) /\ Whole(ledger[t].totalAmount)

\* C35: for every transaction other than a gateway funding, what refunds
\* and reversals have credited back is at most what was debited for it.
\* (Violated under WithdrawSpec: a transfer-failure confirmation credits a
\* withdrawal whose debit never committed.)
CreditedBackWithinDebited ==
  \A t \in Ids :
    ledger[t].via # "fundWallet"
      => audit[t].credits * ledger[t].totalAmount <= audit[t].debits * ledger[t].totalAmount

\* C36: a transaction for which some provider call has returned success, in
\* its first processing or in a retry, is not refunded and has nothing
\* credited back.  (Violated under RefundRaceSpec: a retry that a provider
\* fulfils leaves the transaction failed, refunded or still refundable.)
FulfilledNeverRefunded ==
  \A t \in Ids :
    audit[t].fulfilled => ledger[t].status # "refunded" /\ audit[t].credits = 0

\* C37: when the provider call of a retry succeeds, the persisted status of
\* the transaction becomes successful.  (Violated under RetrySpec: the retry
\* returns the provider's result and writes no status.)
RetrySuccessIsPersisted ==
  [][\A p \in Procs :
       (/\ pc[p].step = "retrycall" /\ pc'[p].op = "idle"
        /\ \E n \in Providers : provider'[n].successfulRequests > provider[n].successfulRequests)
         => ledger'[pc[p].t].status = "successful"]_vars

\* C38: the provider recorded on a transaction that settlement ended
\* successful is the provider whose call fulfilled it, the last one
\* contacted.  (Violated under ProviderSpec: the name recorded is that of
\* the loop's candidate, whichever provider the service called for it
\* delivered.)
RecordedProviderFulfilled ==
  \A t \in Ids :
    (orch[t].success /\ orch[t].step = "done" /\ ledger[t].status = "successful"
       /\ audit[t].contacted # <<>>)
      => ledger[t].providerName = audit[t].contacted[Len(audit[t].contacted)]

\* The fulfilment calls made to provider n by the processing of the
\* transactions (retries aside).
CallsTo(n) ==
  Cardinality({x \in Ids \X (1..(Cardinality(Providers) * Cardinality(Providers))) :
                 /\ x[2] <= Len(audit[x[1]].contacted)
                 /\ audit[x[1]].contacted[x[2]] = n})

\* C39: for every provider, totalRequests = successfulRequests +
\* failedRequests = the number of fulfilment calls made to it.  (Violated
\* under ProviderSpec: an outcome is counted by the service that made the
\* call and once more by the settlement loop.)
CountersMatchCalls ==
  \A n \in Providers :
    /\ provider[n].totalRequests = provider[n].successfulRequests + provider[n].failedRequests
    /\ provider[n].totalRequests = CallsTo(n)

\* C40: a withdrawal request accepted on an unlocked wallet that holds
\* amount + fee, and whose debit meets no concurrent write, has decreased
\* the balance by amount + fee when it returns.  (Violated under
\* WithdrawSpec: the debit writes its own ledger row under the reference of
\* the withdrawal row and is rejected, so nothing is debited and the
\* withdrawal stays pending.)
WithdrawalDebitsTotal ==
  [][\A p \in Procs :
       (/\ pc[p].op = "withdrawToBank" /\ pc[p].step = "txn"
        /\ pc[p].pre = "ok" /\ ~pc[p].conflict
        /\ pc'[p].op = "idle")
         => balance'[pc[p].u] = balance[pc[p].u] - pc[p].amt]_vars

====
